---- MODULE Spec2Model ----
(***************************************************************************)
(* Model of scripts/new_bookmark.py: the bookmark ingestion script that    *)
(* extracts a URL from an issue, resolves its metadata, classifies it,     *)
(* upserts it into a per-category JSON document and maintains the          *)
(* category page and the index link list.                                  *)
(*                                                                         *)
(* Python strings are sequences of one-character strings, so that lower(), *)
(* strip(), rstrip('/'), find(), slicing and the regular expressions are   *)
(* computed character by character.  None and '' are both the empty        *)
(* sequence: the script only ever tests these values for truthiness.       *)
(***************************************************************************)
EXTENDS Integers, Sequences, FiniteSets, TLC

(***************************************************************************)
(* Bounds of the model.                                                    *)
(***************************************************************************)
\* number of upsert_item calls applied to one document (SpecUpsert)
MaxOps == 3

(***************************************************************************)
(* Characters and string primitives.                                       *)
(***************************************************************************)
\* printable ASCII in code point order, starting at code point 32 (the
\* grave accent, code point 96, is written GRAVE: it cannot appear in a
\* string literal)
Ascii ==
 <<" ", "!", "\"", "#", "$", "%", "&", "'", "(", ")", "*", "+", ",", "-", ".", "/",
   "0", "1", "2", "3", "4", "5", "6", "7", "8", "9", ":", ";", "<", "=", ">", "?",
   "@", "A", "B", "C", "D", "E", "F", "G", "H", "I", "J", "K", "L", "M", "N", "O",
   "P", "Q", "R", "S", "T", "U", "V", "W", "X", "Y", "Z", "[", "\\", "]", "^", "_",
   "GRAVE", "a", "b", "c", "d", "e", "f", "g", "h", "i", "j", "k", "l", "m", "n", "o",
   "p", "q", "r", "s", "t", "u", "v", "w", "x", "y", "z", "{", "|", "}", "~">>

Char == {Ascii[i] : i \in 1..Len(Ascii)} \cup {"\n", "\t"}

\* code point of a character (ord)
Ord ==
  [c \in Char |-> IF c = "\n" THEN 10
                  ELSE IF c = "\t" THEN 9
                  ELSE 31 + (CHOOSE i \in 1..Len(Ascii) : Ascii[i] = c)]

\* str.lower() on one character
LowerChar ==
  [c \in Char |-> IF Ord[c] >= 65 /\ Ord[c] <= 90 THEN Ascii[Ord[c] - 31 + 32] ELSE c]

\* str.lower()
Lower(s) == [i \in 1..Len(s) |-> LowerChar[s[i]]]

\* the characters str.strip() removes and \s matches
IsSpace(c) == c \in {" ", "\n", "\t"}

\* [a-z0-9] after lowering
IsAlnum(c) == \/ (Ord[c] >= 48 /\ Ord[c] <= 57)
              \/ (Ord[c] >= 65 /\ Ord[c] <= 90)
              \/ (Ord[c] >= 97 /\ Ord[c] <= 122)

\* Python's None and the empty string (both falsy)
None == <<>>

Truthy(s) == Len(s) > 0

\* s[:n]
Take(s, n) == SubSeq(s, 1, IF Len(s) < n THEN Len(s) ELSE n)

\* s[n:] with n a 0-based offset
Drop(s, n) == SubSeq(s, n + 1, Len(s))

\* str.strip()
Strip(s) ==
  LET nonsp == {i \in 1..Len(s) : ~IsSpace(s[i])}
  IN  IF nonsp = {} THEN <<>>
      ELSE SubSeq(s, CHOOSE i \in nonsp : \A j \in nonsp : i <= j,
                     CHOOSE i \in nonsp : \A j \in nonsp : i >= j)

\* str.rstrip()
RStrip(s) ==
  LET nonsp == {i \in 1..Len(s) : ~IsSpace(s[i])}
  IN  IF nonsp = {} THEN <<>>
      ELSE SubSeq(s, 1, CHOOSE i \in nonsp : \A j \in nonsp : i >= j)

\* str.rstrip('/')
RStripSlash(s) ==
  LET keep == {i \in 1..Len(s) : s[i] # "/"}
  IN  IF keep = {} THEN <<>>
      ELSE SubSeq(s, 1, CHOOSE i \in keep : \A j \in keep : i >= j)

\* whether pat occurs in s at 1-based position i
MatchAt(s, pat, i) ==
  /\ i >= 1
  /\ i + Len(pat) - 1 <= Len(s)
  /\ \A k \in 1..Len(pat) : s[i + k - 1] = pat[k]

\* str.find(pat, from): 1-based position of the first occurrence at or after
\* position from, 0 when there is none (Python's -1)
FindFrom(s, pat, from) ==
  LET hits == {i \in from..(Len(s) - Len(pat) + 1) : MatchAt(s, pat, i)}
  IN  IF hits = {} THEN 0 ELSE CHOOSE i \in hits : \A j \in hits : i <= j

Find(s, pat) == FindFrom(s, pat, 1)

\* pat in s
Contains(s, pat) == Find(s, pat) # 0

\* Python's < on strings: lexicographic by code point
LexLess(a, b) ==
  \E i \in 1..(Len(a) + 1) :
     /\ \A k \in 1..(i - 1) : k <= Len(b) /\ a[k] = b[k]
     /\ i <= Len(b)
     /\ (i > Len(a) \/ Ord[a[i]] < Ord[b[i]])

\* list.sort(key=...): the stable order of the indices of a list of keys
StableOrder(keys) ==
  LET n == Len(keys)
      Rank(j) == 1 + Cardinality({k \in 1..n : \/ LexLess(keys[k], keys[j])
                                               \/ (keys[k] = keys[j] /\ k < j)})
  IN  [i \in 1..n |-> CHOOSE j \in 1..n : Rank(j) = i]

\* whether a list of keys is in ascending order
Ascending(keys) ==
  \A i \in 1..(Len(keys) - 1) : ~LexLess(keys[i + 1], keys[i])

RECURSIVE Concat(_)
\* ''.join(list)
Concat(ss) == IF ss = <<>> THEN <<>> ELSE Head(ss) \o Concat(Tail(ss))

(***************************************************************************)
(* The category document and upsert_item.                                 *)
(***************************************************************************)
GENERAL == <<"G","e","n","e","r","a","l">>

\* mutation of FindGroup: the names are compared as written (case-sensitive)
FindGroupCaseSensitive(groups, group_name) ==
  LET hits == {i \in 1..Len(groups) : groups[i].name = group_name}
  IN  IF hits = {} THEN 0 ELSE CHOOSE i \in hits : \A j \in hits : i <= j

\* index of the first group whose lowercased name equals the lowercased
\* group name, 0 when there is none
FindGroup(groups, group_name) ==
  LET hits == {i \in 1..Len(groups) : Lower(groups[i].name) = Lower(group_name)}
  IN  IF hits = {} THEN 0 ELSE CHOOSE i \in hits : \A j \in hits : i <= j

\* mutation of FindItem: compares the URLs without stripping trailing slashes
FindItemRawUrl(items, item) ==
  LET hits == {i \in 1..Len(items) : items[i].url = item.url}
  IN  IF hits = {} THEN 0 ELSE CHOOSE i \in hits : \A j \in hits : i <= j

\* mutation of FindItem: the first item of the group is taken as the match
FindItemFirst(items, item) == IF items = <<>> THEN 0 ELSE 1

\* index of the first item with the same URL once trailing slashes are
\* stripped, 0 when there is none
FindItem(items, item) ==
  LET hits == {i \in 1..Len(items) : RStripSlash(items[i].url) = RStripSlash(item.url)}
  IN  IF hits = {} THEN 0 ELSE CHOOSE i \in hits : \A j \in hits : i <= j

\* mutation of MergeItem: the stored item is never updated
MergeItemKeep(existing, item) == existing

\* mutation of MergeItem: dict.update with every incoming field
MergeItemOverwrite(existing, item) == item

\* existing.update({k: v for k, v in item.items() if v})
MergeItem(existing, item) ==
  [k \in DOMAIN existing |->
     IF k \in DOMAIN item /\ Truthy(item[k]) THEN item[k] ELSE existing[k]]

\* mutation of SortItems: sorts by the title as written (case-sensitive)
SortItemsCaseSensitive(items) ==
  LET ord == StableOrder([i \in 1..Len(items) |-> items[i].title])
  IN  [i \in 1..Len(items) |-> items[ord[i]]]

\* items.sort(key=lambda x: (x.get('title') or '').lower())
SortItems(items) ==
  LET ord == StableOrder([i \in 1..Len(items) |-> Lower(items[i].title)])
  IN  [i \in 1..Len(items) |-> items[ord[i]]]

\* groups.sort(key=lambda x: x['name'].lower())
SortGroups(groups) ==
  LET ord == StableOrder([i \in 1..Len(groups) |-> Lower(groups[i].name)])
  IN  [i \in 1..Len(groups) |-> groups[ord[i]]]

\* the name under which upsert_item looks the group up
GroupKey(group_name) == Strip(IF Truthy(group_name) THEN group_name ELSE GENERAL)

\* mutation of upsert_item: appends the item without looking for its URL
upsert_itemAppend(data, group_name, item) ==
  LET gname   == GroupKey(group_name)
      found   == FindGroup(data.groups, gname)
      groups1 == IF found = 0
                 THEN Append(data.groups, [name |-> gname, items |-> <<>>])
                 ELSE data.groups
      gi      == IF found = 0 THEN Len(groups1) ELSE found
      items2  == SortItems(Append(groups1[gi].items, item))
      groups2 == [groups1 EXCEPT ![gi].items = items2]
  IN  [data EXCEPT !.groups = SortGroups(groups2)]

\* upsert_item(data, group_name, item): the document after the call
upsert_item(data, group_name, item) ==
  LET gname   == GroupKey(group_name)
      found   == FindGroup(data.groups, gname)
      groups1 == IF found = 0
                 THEN Append(data.groups, [name |-> gname, items |-> <<>>])
                 ELSE data.groups
      gi      == IF found = 0 THEN Len(groups1) ELSE found
      items   == groups1[gi].items
      xi      == FindItem(items, item)
      items1  == IF xi # 0
                 THEN [items EXCEPT ![xi] = MergeItem(items[xi], item)]
                 ELSE Append(items, item)
      items2  == SortItems(items1)
      groups2 == [groups1 EXCEPT ![gi].items = items2]
  IN  [data EXCEPT !.groups = SortGroups(groups2)]

(***************************************************************************)
(* Issue parsing: the first URL and the label overrides.                   *)
(***************************************************************************)
\* smallest element of a non-empty set of integers
Min(S) == CHOOSE i \in S : \A j \in S : i <= j

Max(S) == CHOOSE i \in S : \A j \in S : i >= j

\* last position of the line that holds position p (the position before the
\* next newline, or the end of the text)
EndOfLine(text, p) ==
  LET nls == {i \in p..Len(text) : text[i] = "\n"}
  IN  IF nls = {} THEN Len(text) ELSE Min(nls) - 1

\* first_url(text): re.search(r'(https?://\S+)', text or '')
first_url(text) ==
  LET starts == {i \in 1..Len(text) :
                   \/ /\ MatchAt(text, <<"h","t","t","p",":","/","/">>, i)
                      /\ i + 7 <= Len(text) /\ ~IsSpace(text[i + 7])
                   \/ /\ MatchAt(text, <<"h","t","t","p","s",":","/","/">>, i)
                      /\ i + 8 <= Len(text) /\ ~IsSpace(text[i + 8])}
  IN  IF starts = {} THEN None
      ELSE LET i      == Min(starts)
               spaces == {j \in i..Len(text) : IsSpace(text[j])}
               last   == IF spaces = {} THEN Len(text) ELSE Min(spaces) - 1
           IN  SubSeq(text, i, last)

\* the labels of CATEGORY_RE, GROUP_RE, DESC_RE, TITLE_RE, lowercased (re.I)
CATEGORY_RE == <<"c","a","t","e","g","o","r","y",":">>
GROUP_RE    == <<"g","r","o","u","p",":">>
DESC_RE     == <<"d","e","s","c","r","i","p","t","i","o","n",":">>
TITLE_RE    == <<"t","i","t","l","e",":">>

\* group(1) of  ^Label:\s*(.+)$  (re.I | re.M) attempted at position p, as a
\* record [ok, text]: \s* is greedy and also crosses newlines, .+ stays on
\* one line, and \s* gives characters back when nothing else is left
OverrideMatchAt(rx, text, p) ==
  LET m     == p + Len(rx)
      nonsp == {i \in m..Len(text) : ~IsSpace(text[i])}
      nonnl == {i \in m..Len(text) : text[i] # "\n"}
  IN  IF ~(/\ (p = 1 \/ text[p - 1] = "\n")
           /\ p + Len(rx) - 1 <= Len(text)
           /\ Lower(SubSeq(text, p, p + Len(rx) - 1)) = rx)
      THEN [ok |-> FALSE, text |-> <<>>]
      ELSE IF nonsp # {}
      THEN [ok |-> TRUE, text |-> SubSeq(text, Min(nonsp), EndOfLine(text, Min(nonsp)))]
      ELSE IF nonnl # {}
      THEN [ok |-> TRUE, text |-> SubSeq(text, Max(nonnl), EndOfLine(text, Max(nonnl)))]
      ELSE [ok |-> FALSE, text |-> <<>>]

\* mutation of read_override: the label is searched anywhere in the text,
\* not only at the start of a line
read_overrideUnanchored(rx, text) ==
  LET hits == {p \in 1..Len(text) :
                 /\ p + Len(rx) - 1 <= Len(text)
                 /\ Lower(SubSeq(text, p, p + Len(rx) - 1)) = rx
                 /\ \E i \in (p + Len(rx))..Len(text) : ~IsSpace(text[i])}
  IN  IF hits = {} THEN None
      ELSE LET m  == Min(hits) + Len(rx)
               q  == Min({i \in m..Len(text) : ~IsSpace(text[i])})
           IN  Strip(SubSeq(text, q, EndOfLine(text, q)))

\* read_override(rx, text): the stripped group of the leftmost match, None
\* when the pattern does not match
read_override(rx, text) ==
  LET hits == {p \in 1..Len(text) : OverrideMatchAt(rx, text, p).ok}
  IN  IF hits = {} THEN None
      ELSE Strip(OverrideMatchAt(rx, text, Min(hits)).text)

(***************************************************************************)
(* Classification.                                                         *)
(***************************************************************************)
KEYWORD_MAP ==
  << [name |-> <<"D","o","m","a","i","n"," ","B","l","o","g","s">>,
      kws  |-> <<<<"b","l","o","g">>, <<"n","e","w","s">>, <<"j","o","u","r","n","a","l">>>>],
     [name |-> <<"M","a","r","k","e","t","p","l","a","c","e","s">>,
      kws  |-> <<<<"m","a","r","k","e","t","p","l","a","c","e">>, <<"a","f","t","e","r","n","i","c">>, <<"s","e","d","o">>, <<"d","a","n",".","c","o","m">>, <<"b","u","y"," ","d","o","m","a","i","n","s">>>>],
     [name |-> <<"A","p","p","r","a","i","s","a","l"," ","T","o","o","l","s">>,
      kws  |-> <<<<"a","p","p","r","a","i","s","a","l">>, <<"v","a","l","u","a","t","i","o","n">>, <<"w","o","r","t","h">>>>],
     [name |-> <<"N","a","m","e"," ","G","e","n","e","r","a","t","o","r","s">>,
      kws  |-> <<<<"g","e","n","e","r","a","t","o","r">>, <<"b","r","a","i","n","s","t","o","r","m">>, <<"i","d","e","a","s">>>>],
     [name |-> <<"W","H","O","I","S"," ","/"," ","R","e","s","e","a","r","c","h">>,
      kws  |-> <<<<"w","h","o","i","s">>, <<"d","n","s">>, <<"l","o","o","k","u","p">>>>],
     [name |-> <<"D","r","o","p","s"," ","&"," ","A","u","c","t","i","o","n","s">>,
      kws  |-> <<<<"e","x","p","i","r","e","d">>, <<"a","u","c","t","i","o","n">>, <<"b","a","c","k","o","r","d","e","r">>, <<"d","r","o","p">>, <<"c","l","o","s","e","o","u","t">>>>],
     [name |-> <<"B","r","a","n","d","a","b","l","e"," ","M","a","r","k","e","t","p","l","a","c","e","s">>,
      kws  |-> <<<<"b","r","a","n","d","a","b","l","e">>, <<"b","r","a","n","d","b","u","c","k","e","t">>, <<"a","t","o","m">>, <<"s","q","u","a","d","h","e","l","p">>>>] >>

\* fallback_category(title, desc, url): the first rule with a keyword that
\* occurs in the lowercased "title desc url", else 'General'
fallback_category(title, desc, url) ==
  LET t    == Lower(title \o <<" ">> \o desc \o <<" ">> \o url)
      hits == {r \in 1..Len(KEYWORD_MAP) :
                 \E k \in 1..Len(KEYWORD_MAP[r].kws) : Contains(t, KEYWORD_MAP[r].kws[k])}
  IN  IF hits = {} THEN GENERAL ELSE KEYWORD_MAP[Min(hits)].name

\* slugify(text): lowercase, every run of characters other than letters and
\* digits becomes one hyphen, hyphens at the edges are dropped
slugify(text) ==
  LET l    == Lower(text)
      keep == {i \in 1..Len(l) : IsAlnum(l[i])}
      \* the pieces of the slug, one per character
      piece(i) == IF IsAlnum(l[i]) THEN <<l[i]>>
                  ELSE IF /\ i > Min(keep) /\ i < Max(keep) /\ IsAlnum(l[i + 1])
                       THEN <<"-">>
                       ELSE <<>>
  IN  IF keep = {} THEN <<>>
      ELSE Concat([i \in 1..Len(l) |-> piece(i)])

\* the model's reply as json.loads and the brace regex see it:
\*   parse  - json.loads(txt): "object", "nonobject" (a list, a string, a
\*            number, null) or "fail" (JSONDecodeError)
\*   braces - json.loads of the text matched by \{[\s\S]*\}: "none" when the
\*            pattern does not match, else "object" or "fail"
\*   obj    - the parsed object, a function from field names to strings
AiReply(parse, braces, obj) == [parse |-> parse, braces |-> braces, obj |-> obj]

\* f with key k set to v
Put(f, k, v) == [x \in DOMAIN f \cup {k} |-> IF x = k THEN v ELSE f[x]]

\* lines 91-92: if 'category_name' not in data
BackfillCategory(data, title, desc, url) ==
  IF "category_name" \in DOMAIN data THEN data
  ELSE Put(data, "category_name", fallback_category(title, desc, url))

\* lines 93-94: if 'suggested_category_slug' not in data
BackfillSlug(data) ==
  IF "suggested_category_slug" \in DOMAIN data THEN data
  ELSE Put(data, "suggested_category_slug", slugify(data["category_name"]))

\* lines 95-96: if 'short_title' not in data
BackfillTitle(data, title) ==
  IF "short_title" \in DOMAIN data THEN data
  ELSE Put(data, "short_title", Take(title, 60))

\* lines 97-98: if desc and 'description' not in data
BackfillDescription(data, desc) ==
  IF Truthy(desc) /\ "description" \notin DOMAIN data
  THEN Put(data, "description", Take(desc, 220))
  ELSE data

\* the data dictionary after the backfill of ai_categorize (lines 91-98)
AiBackfill(data, title, desc, url) ==
  BackfillDescription(
    BackfillTitle(BackfillSlug(BackfillCategory(data, title, desc, url)), title),
    desc)

\* ai_categorize(title, desc, url) for a given reply of the model, as a
\* record [raised, data].  The second json.loads (line 90) is outside the
\* try block, and a value that is not a dict fails in the backfill or at the
\* first subscript in the main script.
ai_categorize(reply, title, desc, url) ==
  IF reply.parse = "object"
  THEN [raised |-> FALSE, data |-> AiBackfill(reply.obj, title, desc, url)]
  ELSE IF reply.parse = "nonobject"
  THEN [raised |-> TRUE, data |-> << >>]
  ELSE IF reply.braces = "none"
  THEN [raised |-> FALSE, data |-> AiBackfill(<< >>, title, desc, url)]
  ELSE IF reply.braces = "object"
  THEN [raised |-> FALSE, data |-> AiBackfill(reply.obj, title, desc, url)]
  ELSE [raised |-> TRUE, data |-> << >>]

\* dict.get(key, default)
Get(d, k, default) == IF k \in DOMAIN d THEN d[k] ELSE default

\* a classification that raised
ClassRaised ==
  [raised |-> TRUE, category_name |-> <<>>, category_slug |-> <<>>,
   short_title |-> <<>>, description |-> <<>>, group_name |-> None]

\* lines 195-200: the classification read from the result of ai_categorize
ClassOfAi(r) ==
  IF r.raised THEN ClassRaised
  ELSE [raised        |-> FALSE,
        category_name |-> r.data["category_name"],
        category_slug |-> r.data["suggested_category_slug"],
        short_title   |-> r.data["short_title"],
        description   |-> Get(r.data, "description", <<>>),
        group_name    |-> Get(r.data, "group_name", None)]

\* lines 202-206: the classification of the keyword fallback
ClassOfFallback(cat, title, meta_desc) ==
  [raised        |-> FALSE,
   category_name |-> cat,
   category_slug |-> slugify(cat),
   short_title   |-> Take(title, 60),
   description   |-> Take(IF Truthy(meta_desc) THEN meta_desc
                          ELSE <<"R","e","s","o","u","r","c","e",":"," ">> \o title, 220),
   group_name    |-> None]

\* the classification of the main script (lines 194-206), as a record
\* [raised, category_name, category_slug, short_title, description, group_name]
Classify(use_ai, reply, title, meta_desc, final_url) ==
  IF use_ai
  THEN ClassOfAi(ai_categorize(reply, title, meta_desc, final_url))
  ELSE ClassOfFallback(fallback_category(title, meta_desc, final_url), title, meta_desc)

\* lines 213-221: the overrides that are truthy replace the classification
Override(c, override_cat, override_grp, override_desc, override_title) ==
  [c EXCEPT
     !.category_name = IF Truthy(override_cat) THEN override_cat ELSE @,
     !.category_slug = IF Truthy(override_cat) THEN slugify(override_cat) ELSE @,
     !.group_name    = IF Truthy(override_grp) THEN override_grp ELSE @,
     !.description   = IF Truthy(override_desc) THEN Take(override_desc, 220) ELSE @,
     !.short_title   = IF Truthy(override_title) THEN Take(override_title, 60) ELSE @]

\* the issue-level overrides of the main script (lines 209-221) applied to
\* a classification
ApplyOverrides(c, issue_body) ==
  Override(c, read_override(CATEGORY_RE, issue_body),
              read_override(GROUP_RE, issue_body),
              read_override(DESC_RE, issue_body),
              read_override(TITLE_RE, issue_body))

(***************************************************************************)
(* The store: the data and categories directories, the category JSON       *)
(* documents, the category pages and the index.  A JSON file is held as    *)
(* the document it serialises (json.dumps / json.loads of dictionaries,    *)
(* lists and strings), a page and the index as their text.                 *)
(***************************************************************************)
CAT_START == <<"<","!","-","-"," ","A","U","T","O","-","C","A","T","E","G","O","R","I","E","S",":","S","T","A","R","T"," ","-","-",">">>
CAT_END   == <<"<","!","-","-"," ","A","U","T","O","-","C","A","T","E","G","O","R","I","E","S",":","E","N","D"," ","-","-",">">>

\* templates/category.html: a page with the two placeholders
CATEGORY_TEMPLATE == <<"<","h","1",">","{","{","C","A","T","E","G","O","R","Y","_","N","A","M","E","}","}","<","/","h","1",">","<","p",">","{","{","C","A","T","E","G","O","R","Y","_","S","L","U","G","}","}","<","/","p",">">>

RECURSIVE Replace(_, _, _)
\* str.replace(old, new)
Replace(s, old, new) ==
  LET i == Find(s, old)
  IN  IF i = 0 THEN s
      ELSE SubSeq(s, 1, i - 1) \o new \o Replace(Drop(s, i - 1 + Len(old)), old, new)

\* CATEGORIES_DIR.mkdir(exist_ok=True)
MkdirCategories(fs) == [fs EXCEPT !.catDir = TRUE]

\* mutation of WritePage: the page is written whether or not it exists
WritePageAlways(fs, name, slug) ==
  [fs EXCEPT !.pages =
     Put(fs.pages, slug,
         Replace(Replace(CATEGORY_TEMPLATE, <<"{","{","C","A","T","E","G","O","R","Y","_","N","A","M","E","}","}">>, name),
                 <<"{","{","C","A","T","E","G","O","R","Y","_","S","L","U","G","}","}">>, slug))]

\* the page write of ensure_category_page: only when the page is absent
WritePage(fs, name, slug) ==
  IF slug \in DOMAIN fs.pages THEN fs
  ELSE [fs EXCEPT !.pages =
          Put(fs.pages, slug,
              Replace(Replace(CATEGORY_TEMPLATE, <<"{","{","C","A","T","E","G","O","R","Y","_","N","A","M","E","}","}">>, name),
                      <<"{","{","C","A","T","E","G","O","R","Y","_","S","L","U","G","}","}">>, slug))]

\* ensure_category_page(name, slug)
ensure_category_page(fs, name, slug) == WritePage(MkdirCategories(fs), name, slug)

\* DATA_DIR.mkdir(exist_ok=True)
MkdirData(fs) == [fs EXCEPT !.dataDir = TRUE]

\* dict.setdefault(key, value)
SetDefault(d, k, v) == IF k \in DOMAIN d THEN d ELSE Put(d, k, v)

\* mutation of load_category_json: the document is always created anew
load_category_jsonFresh(fs, slug, category_name) ==
  [category |-> category_name, groups |-> <<>>]

\* load_category_json(slug, category_name): the document read or created
load_category_json(fs, slug, category_name) ==
  IF slug \in DOMAIN fs.data
  THEN LET data == fs.data[slug]
           hint == IF Truthy(category_name) THEN category_name
                   ELSE IF Truthy(Get(data, "category", <<>>)) THEN data["category"]
                   ELSE slug
       IN  SetDefault(SetDefault(data, "category", hint), "groups", <<>>)
  ELSE [category |-> category_name, groups |-> <<>>]

\* mutation of WriteJson: the document is not written
WriteJsonSkipped(fs, slug, data_json) == fs

\* json_path.write_text(json.dumps(data_json, ...))
WriteJson(fs, slug, data_json) == [fs EXCEPT !.data = Put(fs.data, slug, data_json)]

(***************************************************************************)
(* The marked regions: insert_between and the index link list.             *)
(***************************************************************************)
\* s[a:b] with 0-based offsets a <= len(s) and b
Slice(s, a, b) == SubSeq(s, a + 1, IF b > Len(s) THEN Len(s) ELSE b)

RECURSIVE SplitLines(_)
\* str.splitlines(): the lines of a text, without their newlines
SplitLines(s) ==
  IF s = <<>> THEN <<>>
  ELSE LET e == EndOfLine(s, 1)
       IN  <<SubSeq(s, 1, e)>> \o SplitLines(Drop(s, IF e < Len(s) THEN e + 1 ELSE e))

\* str.endswith(pat)
EndsWith(s, pat) == Len(s) >= Len(pat) /\ MatchAt(s, pat, Len(s) - Len(pat) + 1)

\* whether the markers are unusable: one is absent or the end marker comes
\* first (start == -1 or end == -1 or end < start)
MissingMarkers(whole, mark_start, mark_end) ==
  \/ Find(whole, mark_start) = 0
  \/ Find(whole, mark_end) = 0
  \/ Find(whole, mark_end) < Find(whole, mark_start)

\* mutation of insert_between: the content is appended without looking for
\* the dedupe key among the lines of the region
insert_betweenNoDedupe(mark_start, mark_end, whole, new_li, dedupe_line) ==
  IF MissingMarkers(whole, mark_start, mark_end)
  THEN [raised |-> TRUE, text |-> whole]
  ELSE
    LET start   == Find(whole, mark_start) - 1
        end     == Find(whole, mark_end) - 1
        before  == Slice(whole, 0, start + Len(mark_start))
        middle  == Slice(whole, start + Len(mark_start), end)
        after   == Drop(whole, end)
        middle1 == IF Truthy(middle) /\ ~EndsWith(middle, <<"\n">>)
                   THEN middle \o <<"\n">> ELSE middle
        middle2 == middle1 \o RStrip(new_li) \o <<"\n">>
    IN  [raised |-> FALSE, text |-> before \o <<"\n">> \o middle2 \o after]

\* insert_between(mark_start, mark_end, whole, new_li, dedupe_line), as a
\* record [raised, text]
insert_between(mark_start, mark_end, whole, new_li, dedupe_line) ==
  IF MissingMarkers(whole, mark_start, mark_end)
  THEN [raised |-> TRUE, text |-> whole]
  ELSE
    LET start   == Find(whole, mark_start) - 1
        end     == Find(whole, mark_end) - 1
        before  == Slice(whole, 0, start + Len(mark_start))
        middle  == Slice(whole, start + Len(mark_start), end)
        after   == Drop(whole, end)
        all     == SplitLines(middle)
        lines   == {Strip(all[i]) : i \in {j \in 1..Len(all) : Truthy(Strip(all[j]))}}
        middle1 == IF Truthy(middle) /\ ~EndsWith(middle, <<"\n">>)
                   THEN middle \o <<"\n">> ELSE middle
        middle2 == middle1 \o RStrip(new_li) \o <<"\n">>
    IN  IF Truthy(dedupe_line) /\ Strip(dedupe_line) \in lines
        THEN [raised |-> FALSE, text |-> whole]
        ELSE [raised |-> FALSE, text |-> before \o <<"\n">> \o middle2 \o after]

\* first position at or after from where pat occurs ignoring case, 0 if none
FindNoCase(s, pat, from) == FindFrom(Lower(s), Lower(pat), from)

RECURSIVE FindAllLi(_)
\* re.findall(r'<li>.*?</li>', middle, flags=re.I | re.S)
FindAllLi(middle) ==
  LET i == FindNoCase(middle, <<"<","l","i",">">>, 1)
      j == IF i = 0 THEN 0 ELSE FindNoCase(middle, <<"<","/","l","i",">">>, i + 4)
  IN  IF i = 0 \/ j = 0 THEN <<>>
      ELSE <<SubSeq(middle, i, j + 4)>> \o FindAllLi(Drop(middle, j + 4))

RECURSIVE StripTags(_)
\* re.sub(r'<.*?>', '', li): a tag ends at the first '>' on the same line
StripTags(s) ==
  LET i == Find(s, <<"<">>)
      j == IF i = 0 THEN 0 ELSE FindFrom(s, <<">">>, i + 1)
  IN  IF i = 0 THEN s
      ELSE IF j = 0 \/ EndOfLine(s, i) < j
      THEN SubSeq(s, 1, i) \o StripTags(Drop(s, i))
      ELSE SubSeq(s, 1, i - 1) \o StripTags(Drop(s, j))

\* mutation of LiKey: the visible text as written (case-sensitive order)
LiKeyCaseSensitive(li) == Strip(StripTags(li))

\* the sort key of a list entry: its visible text, stripped and lowercased
LiKey(li) == Lower(Strip(StripTags(li)))

\* link_li of ensure_category_link_on_index
LinkLi(name, slug) ==
  <<"<","l","i",">","<","a"," ","h","r","e","f","=","\"","c","a","t","e","g","o","r","i","e","s","/">> \o slug \o <<".","h","t","m","l","\"",">">> \o name \o <<"<","/","a",">","<","/","l","i",">">>

\* 'href="categories/{slug}.html"'
LinkHref(slug) == <<"h","r","e","f","=","\"","c","a","t","e","g","o","r","i","e","s","/">> \o slug \o <<".","h","t","m","l","\"">>

RECURSIVE JoinLines(_)
\* "\n".join(list)
JoinLines(ss) ==
  IF ss = <<>> THEN <<>>
  ELSE IF Len(ss) = 1 THEN ss[1]
  ELSE ss[1] \o <<"\n">> \o JoinLines(Tail(ss))

\* mutation of RewriteLinkRegion: the link is appended without looking for
\* an entry that already references the slug
RewriteLinkRegionNoDedupe(html, name, slug) ==
  LET start      == Find(html, CAT_START) - 1
      end        == Find(html, CAT_END) - 1
      before     == Slice(html, 0, start + Len(CAT_START))
      middle     == Slice(html, start + Len(CAT_START), end)
      after      == Drop(html, end)
      lis        == Append(FindAllLi(middle), LinkLi(name, slug))
      ord        == StableOrder([i \in 1..Len(lis) |-> LiKey(lis[i])])
      lis_sorted == [i \in 1..Len(lis) |-> lis[ord[i]]]
      new_middle == <<"\n">> \o JoinLines(lis_sorted) \o <<"\n">>
  IN  before \o new_middle \o after

\* mutation of RewriteLinkRegion: the text kept in front of the region stops
\* before the start marker (html[:start])
RewriteLinkRegionDropsMarker(html, name, slug) ==
  LET start      == Find(html, CAT_START) - 1
      end        == Find(html, CAT_END) - 1
      before     == Slice(html, 0, start)
      middle     == Slice(html, start + Len(CAT_START), end)
      after      == Drop(html, end)
      found      == FindAllLi(middle)
      lis        == IF \E i \in 1..Len(found) : Contains(found[i], LinkHref(slug))
                    THEN found ELSE Append(found, LinkLi(name, slug))
      ord        == StableOrder([i \in 1..Len(lis) |-> LiKey(lis[i])])
      lis_sorted == [i \in 1..Len(lis) |-> lis[ord[i]]]
      new_middle == <<"\n">> \o JoinLines(lis_sorted) \o <<"\n">>
  IN  before \o new_middle \o after

\* the try block of ensure_category_link_on_index (lines 164-175) on an index
\* whose markers are in order: the rewritten text
RewriteLinkRegion(html, name, slug) ==
  LET start      == Find(html, CAT_START) - 1
      end        == Find(html, CAT_END) - 1
      before     == Slice(html, 0, start + Len(CAT_START))
      middle     == Slice(html, start + Len(CAT_START), end)
      after      == Drop(html, end)
      found      == FindAllLi(middle)
      lis        == IF \E i \in 1..Len(found) : Contains(found[i], LinkHref(slug))
                    THEN found ELSE Append(found, LinkLi(name, slug))
      ord        == StableOrder([i \in 1..Len(lis) |-> LiKey(lis[i])])
      lis_sorted == [i \in 1..Len(lis) |-> lis[ord[i]]]
      new_middle == <<"\n">> \o JoinLines(lis_sorted) \o <<"\n">>
  IN  before \o new_middle \o after

\* ensure_category_link_on_index(name, slug) on the index file, as a record
\* [raised, index]: with unusable markers the RuntimeError of the try block
\* is caught and insert_between is called, which raises it again
ensure_category_link_on_index(index, name, slug) ==
  IF ~index.exists THEN [raised |-> FALSE, index |-> index]
  ELSE IF MissingMarkers(index.text, CAT_START, CAT_END)
  THEN LET r == insert_between(CAT_START, CAT_END, index.text,
                               LinkLi(name, slug), LinkLi(name, slug))
       IN  [raised |-> r.raised, index |-> [index EXCEPT !.text = r.text]]
  ELSE [raised |-> FALSE,
        index  |-> [index EXCEPT !.text = RewriteLinkRegion(index.text, name, slug)]]

(***************************************************************************)
(* Inputs of the upsert specification.                                     *)
(***************************************************************************)
\* group names: absent (the default "General"), a case and whitespace
\* variant of the default, a name that sorts before "General" only when
\* compared case-insensitively, and a name of whitespace only
UpsertGroups == {None, <<" ","g","e","n","e","r","a","l">>, <<"a","p","p","s">>, <<" "," ">>}

Item(t, u, d) == [title |-> t, url |-> u, description |-> d]

\* items: two identities ("u" = "u/", "/" = ""), titles with "B" < "a" < "c"
\* by code point and "a" < "b" < "c" lowercased, and empty incoming fields
UpsertItems ==
  { Item(<<"a">>, <<"u">>,  <<"d">>),
    Item(<<"B">>, <<"u","/">>, <<>>),
    Item(<<"c">>, <<"u">>,  <<>>),
    Item(<<>>,  <<"u","/">>, <<"e">>),
    Item(<<"B">>, <<"/">>,  <<>>),
    Item(<<>>,  <<>>,   <<"d">>) }

(***************************************************************************)
(* Inputs of the invocation specification.                                 *)
(***************************************************************************)
URL_TOOL == <<"h","t","t","p","s",":","/","/","e","x","a","m","p","l","e",".","c","o","m","/","t","o","o","l">>
URL_SEDO == <<"h","t","t","p","s",":","/","/","s","e","d","o",".","c","o","m">>

\* the metadata resolver, a black box to the script: what fetch_meta(url)
\* returns for the pages of the model when the request succeeds (the second
\* page has no description and redirects to the URL with a trailing slash)
Resolve(url) ==
  IF url = URL_TOOL
  THEN [title |-> <<"E","x","a","m","p","l","e"," ","T","o","o","l">>, desc |-> <<"A"," ","d","o","m","a","i","n"," ","t","o","o","l">>, final_url |-> URL_TOOL]
  ELSE IF url = URL_SEDO
  THEN [title |-> <<"S","e","d","o">>, desc |-> <<>>, final_url |-> URL_SEDO \o <<"/">>]
  ELSE [title |-> url, desc |-> <<>>, final_url |-> url]

NoReply == AiReply("fail", "none", << >>)

Submission(t, b, ok, ai, reply) ==
  [issue_title |-> t, issue_body |-> b, fetch_ok |-> ok, use_ai |-> ai, reply |-> reply]

\* the label follows other text on the same line
BodyA  == <<"C","h","e","c","k"," ","o","u","t"," ","h","t","t","p","s",":","/","/","e","x","a","m","p","l","e",".","c","o","m","/","t","o","o","l"," ","C","a","t","e","g","o","r","y",":"," ","M","a","r","k","e","t","p","l","a","c","e","s">>
\* the label on a line of its own
BodyA2 == <<"h","t","t","p","s",":","/","/","e","x","a","m","p","l","e",".","c","o","m","/","t","o","o","l","\n","C","a","t","e","g","o","r","y",":"," ","M","a","r","k","e","t","p","l","a","c","e","s">>
BodyB  == <<"h","t","t","p","s",":","/","/","e","x","a","m","p","l","e",".","c","o","m","/","t","o","o","l","\n","D","e","s","c","r","i","p","t","i","o","n",":"," ","U","p","d","a","t","e","d"," ","s","u","m","m","a","r","y">>

SubA  == Submission(<<>>, BodyA, TRUE, FALSE, NoReply)
SubA2 == Submission(<<>>, BodyA2, TRUE, FALSE, NoReply)
SubB  == Submission(<<>>, BodyB, TRUE, FALSE, NoReply)
SubC  == Submission(<<"P","l","e","a","s","e"," ","a","d","d">>, <<"n","o"," ","l","i","n","k"," ","h","e","r","e">>, TRUE, FALSE, NoReply)
SubD  == Submission(URL_SEDO, <<"C","a","t","e","g","o","r","y",":"," ","M","a","r","k","e","t","p","l","a","c","e","s">>, TRUE, FALSE, NoReply)
SubE  == Submission(URL_SEDO, <<"D","e","s","c","r","i","p","t","i","o","n",":"," ","U","p","d","a","t","e","d"," ","s","u","m","m","a","r","y">>, TRUE, FALSE, NoReply)
SubF  == Submission(URL_SEDO, <<"g","r","o","u","p",":"," ","B","r","o","k","e","r","s","\n","T","I","T","L","E",":"," ","S","e","d","o"," ","H","o","m","e">>, TRUE, FALSE, NoReply)
SubG  == Submission(URL_SEDO, <<"C","a","t","e","g","o","r","y",":"," ","G","E","N","E","R","A","L">>, TRUE, FALSE, NoReply)
SubFetchFail == Submission(<<>>, BodyA, FALSE, FALSE, NoReply)

\* replies of the model-backed classifier
ReplyFull ==
  AiReply("object", "none",
          [category_name |-> <<"D","e","v"," ","T","o","o","l","s">>, suggested_category_slug |-> <<"d","e","v","-","t","o","o","l","s">>,
           short_title |-> <<"T","o","o","l">>, description |-> <<"A"," ","t","o","o","l">>,
           group_name |-> <<"U","t","i","l","i","t","i","e","s">>])
\* prose without braces
ReplyText == AiReply("fail", "none", << >>)
\* prose around a JSON object that omits every field but the group
ReplyEmbedded == AiReply("fail", "object", [group_name |-> <<"U","t","i","l","i","t","i","e","s">>])
\* prose with braces around text that is not JSON
ReplyBroken == AiReply("fail", "fail", << >>)
\* valid JSON that is not an object
ReplyList == AiReply("nonobject", "none", << >>)

AiSub(reply) == Submission(URL_TOOL, <<>>, TRUE, TRUE, reply)

Submissions ==
  { SubA, SubA2, SubB, SubC, SubD, SubE, SubF, SubG, SubFetchFail,
    AiSub(ReplyFull), AiSub(ReplyText), AiSub(ReplyEmbedded),
    AiSub(ReplyBroken), AiSub(ReplyList) }

\* the index file before the first invocation
NoIndex == [exists |-> FALSE, text |-> <<>>]

IndexFile(text) == [exists |-> TRUE, text |-> text]

IndexEmptyRegion ==
  IndexFile(<<"<","u","l",">","\n">> \o CAT_START \o <<"\n">> \o CAT_END \o <<"\n","<","/","u","l",">">>)

\* the end marker is missing
IndexNoEnd == IndexFile(<<"<","u","l",">">> \o CAT_START \o <<"<","/","u","l",">">>)

\* absent, with an empty marked region, without the end marker, without the
\* start marker, and with the end marker before the start marker
InitialIndexes ==
  { NoIndex,
    IndexEmptyRegion,
    IndexNoEnd,
    IndexFile(<<"<","u","l",">">> \o CAT_END \o <<"<","/","u","l",">">>),
    IndexFile(CAT_END \o CAT_START) }

\* the submissions and index files of the crash specification
CrashSubmissions == {SubA2, SubB, SubD, AiSub(ReplyFull)}

CrashIndexes == {NoIndex, IndexEmptyRegion, IndexNoEnd}

\* number of submissions processed one after the other
MaxRuns == 2

\* number of crashes of one submission (SpecCrash)
MaxCrashes == 1

(***************************************************************************)
(* Inputs of the region specification.                                     *)
(***************************************************************************)
\* documents with the two markers: an empty region, the markers next to
\* each other, a region with an entry and a line of other text that ends
\* without a newline, each marker twice, and an end marker before the start
\* marker
RegionDocs ==
  { IndexEmptyRegion.text,
    <<"h","e","a","d">> \o CAT_START \o CAT_END \o <<"t","a","i","l">>,
    <<"a","\n">> \o CAT_START \o <<"\n">> \o LinkLi(<<"Z","e","d">>, <<"z","e","d">>) \o <<"\n"," ","k","e","e","p">>
       \o CAT_END \o <<"\n","z">>,
    CAT_START \o <<"x">> \o CAT_START \o <<"y">> \o CAT_END \o <<"z">> \o CAT_END,
    CAT_END \o CAT_START \o CAT_END }

\* contents given to insert_between as new content and as dedupe key: a
\* list entry, a line with surrounding whitespace, whitespace only, and a
\* line that contains the end marker
Contents ==
  { <<"<","l","i",">","b","<","/","l","i",">">>,
    <<" "," ","k","e","e","p"," ">>,
    <<" ">>,
    <<"x">> \o CAT_END }

\* the (name, slug) the index link is asked for: two display names of one
\* slug, and names whose order depends on the case
LinkPairs ==
  { [name |-> GENERAL, slug |-> slugify(GENERAL)],
    [name |-> <<"g","e","n","e","r","a","l">>, slug |-> <<"g","e","n","e","r","a","l">>],
    [name |-> <<"Z","e","d">>, slug |-> <<"z","e","d">>],
    [name |-> <<"a","p","p","s"," ","&"," ","C","o">>, slug |-> slugify(<<"a","p","p","s"," ","&"," ","C","o">>)] }

\* number of region operations applied one after the other (SpecRegion)
MaxRegionOps == 2

(***************************************************************************)
(* Inputs of the race specification.                                       *)
(***************************************************************************)
\* the invocations that run at the same time
Procs == {1, 2}

\* two URLs with a Category: override of one category, and the same URLs
\* classified by the keyword fallback
RaceSubmissions == {SubA2, SubD, SubB, SubE}

RaceIndexes == {NoIndex, IndexEmptyRegion}

(***************************************************************************)
(* State.                                                                  *)
(***************************************************************************)
VARIABLES
  doc, prevDoc, argGroup, argItem, nops,  \* upsert specification
  fs,          \* the store: catDir, dataDir, pages, data, index
  pc,          \* position of the running invocation in the main script
  sub,         \* the submission the invocation processes
  loc,         \* the local variables of the main script
  err,         \* the error that ended the invocation, "" if none
  out,         \* the values appended to GITHUB_OUTPUT
  runs,        \* number of submissions started
  crashes,     \* number of crashes of the current submission
  fsStart,     \* the store when the submission was first started
  fsAttempt,   \* the store when the current attempt was started
  catStored,   \* <<URL identity, slug>> stored by a submission with a Category: override
  crashAt,     \* position at which the current submission last crashed, "" if none
  whole,       \* region specification: the document
  prevWhole,   \* the document before the last region operation
  whole0,      \* the document the region operations started from
  lastOp,      \* the last region operation: kind, content or name, slug, raised
  kinds,       \* the kinds of region operations applied so far
  slugs,       \* the slugs given to ensure_category_link_on_index so far
  rops,        \* number of region operations applied
  raceFs,      \* race specification: the store the invocations share
  racePc,      \* position of each invocation in the main script
  raceSub,     \* the submission of each invocation
  raceLoc,     \* the local variables of each invocation
  trace        \* the loads and writes of category documents, in order

uvars == <<doc, prevDoc, argGroup, argItem, nops>>

mvars == <<fs, pc, sub, loc, err, out, runs, crashes, fsStart, fsAttempt, catStored,
           crashAt>>

rvars == <<whole, prevWhole, whole0, lastOp, kinds, slugs, rops>>

cvars == <<raceFs, racePc, raceSub, raceLoc, trace>>

vars == <<doc, prevDoc, argGroup, argItem, nops,
          fs, pc, sub, loc, err, out, runs, crashes, fsStart, fsAttempt, catStored,
          crashAt,
          whole, prevWhole, whole0, lastOp, kinds, slugs, rops,
          raceFs, racePc, raceSub, raceLoc, trace>>

\* a freshly created category document (load_category_json, no file yet)
FreshDoc(category_name) ==
  load_category_json([data |-> << >>], <<"x">>, category_name)

NoClass == [ClassRaised EXCEPT !.raised = FALSE]

LocInit ==
  [url |-> None, title |-> <<>>, meta_desc |-> <<>>, final_url |-> <<>>,
   c |-> NoClass, data_json |-> FreshDoc(<<>>)]

EmptyStore(index) ==
  [catDir |-> FALSE, dataDir |-> FALSE, pages |-> << >>, data |-> << >>, index |-> index]

UInit ==
  /\ doc = FreshDoc(GENERAL)
  /\ prevDoc = FreshDoc(GENERAL)
  /\ argGroup = None
  /\ argItem = Item(<<>>, <<>>, <<>>)
  /\ nops = 0

MInit(indexes) ==
  /\ \E index \in indexes : /\ fs = EmptyStore(index)
                            /\ fsStart = EmptyStore(index)
                            /\ fsAttempt = EmptyStore(index)
  /\ pc = "idle"
  /\ sub = SubC
  /\ loc = LocInit
  /\ err = ""
  /\ out = <<>>
  /\ runs = 0
  /\ crashes = 0
  /\ catStored = {}
  /\ crashAt = ""

NoOp == [kind |-> "none", content |-> <<>>, slug |-> <<>>, raised |-> FALSE]

RInit(docs) ==
  /\ \E d \in docs : /\ whole = d
                      /\ prevWhole = d
                      /\ whole0 = d
  /\ lastOp = NoOp
  /\ kinds = {}
  /\ slugs = {}
  /\ rops = 0

CInit(indexes) ==
  /\ \E index \in indexes : raceFs = EmptyStore(index)
  /\ racePc = [p \in Procs |-> "idle"]
  /\ raceSub = [p \in Procs |-> SubC]
  /\ raceLoc = [p \in Procs |-> LocInit]
  /\ trace = <<>>

(***************************************************************************)
(* The upsert specification: upsert_item applied again and again to a      *)
(* freshly created document.                                               *)
(***************************************************************************)
\* one call upsert_item(doc, g, it)
Upsert ==
  /\ nops < MaxOps
  /\ \E g \in UpsertGroups, it \in UpsertItems :
        /\ doc' = upsert_item(doc, g, it)
        /\ prevDoc' = doc
        /\ argGroup' = g
        /\ argItem' = it
  /\ nops' = nops + 1
  /\ UNCHANGED <<mvars, rvars, cvars>>

InitUpsert ==
  UInit /\ MInit({NoIndex}) /\ RInit({IndexEmptyRegion.text}) /\ CInit({NoIndex})

SpecUpsert == InitUpsert /\ [][Upsert]_vars

(***************************************************************************)
(* The invocation specification: the main script, one step per stage and   *)
(* per filesystem write, for submissions processed one after the other.    *)
(***************************************************************************)
\* the item the main script upserts (line 227)
MainItem(l) == Item(l.c.short_title, l.final_url, l.c.description)

\* the group name the main script passes to upsert_item (line 228)
MainGroup(l) == IF Truthy(l.c.group_name) THEN l.c.group_name ELSE GENERAL

\* the workflow starts the script on a submission
StartOn(submissions) ==
  /\ pc \in {"idle", "done", "failed"}
  /\ runs < MaxRuns
  /\ \E s \in submissions : sub' = s
  /\ pc' = "start"
  /\ loc' = LocInit
  /\ err' = ""
  /\ out' = <<>>
  /\ runs' = runs + 1
  /\ crashes' = 0
  /\ fsStart' = fs
  /\ fsAttempt' = fs
  /\ crashAt' = ""
  /\ UNCHANGED <<fs, catStored>>
  /\ UNCHANGED <<uvars, rvars, cvars>>

Start == StartOn(Submissions)

\* lines 186-189: url = first_url(issue_title) or first_url(issue_body)
FirstUrl ==
  /\ pc = "start"
  /\ LET url == IF Truthy(first_url(sub.issue_title)) THEN first_url(sub.issue_title)
                ELSE first_url(sub.issue_body)
     IN  IF Truthy(url)
         THEN /\ pc' = "fetch"
              /\ loc' = [loc EXCEPT !.url = url]
              /\ err' = err
         ELSE /\ pc' = "failed"
              /\ err' = "InputError"
              /\ loc' = loc
  /\ UNCHANGED <<fs, sub, out, runs, crashes, fsStart, fsAttempt, catStored, crashAt>>
  /\ UNCHANGED <<uvars, rvars, cvars>>

\* mutation of FetchMeta: the data directory is created before the request
FetchMetaAfterMkdir ==
  /\ pc = "fetch"
  /\ fs' = MkdirData(fs)
  /\ IF sub.fetch_ok
     THEN LET m == Resolve(loc.url)
          IN  /\ pc' = "classify"
              /\ loc' = [loc EXCEPT !.title = m.title, !.meta_desc = m.desc,
                                    !.final_url = m.final_url]
              /\ err' = err
     ELSE /\ pc' = "failed"
          /\ err' = "FetchError"
          /\ loc' = loc
  /\ UNCHANGED <<sub, out, runs, crashes, fsStart, fsAttempt, catStored, crashAt>>
  /\ UNCHANGED <<uvars, rvars, cvars>>

\* line 191: title, meta_desc, final_url = fetch_meta(url)
FetchMeta ==
  /\ pc = "fetch"
  /\ IF sub.fetch_ok
     THEN LET m == Resolve(loc.url)
          IN  /\ pc' = "classify"
              /\ loc' = [loc EXCEPT !.title = m.title, !.meta_desc = m.desc,
                                    !.final_url = m.final_url]
              /\ err' = err
     ELSE /\ pc' = "failed"
          /\ err' = "FetchError"
          /\ loc' = loc
  /\ UNCHANGED <<fs, sub, out, runs, crashes, fsStart, fsAttempt, catStored, crashAt>>
  /\ UNCHANGED <<uvars, rvars, cvars>>

\* lines 194-221: classification and issue-level overrides
ClassifyStep ==
  /\ pc = "classify"
  /\ \E c \in {Classify(sub.use_ai, sub.reply, loc.title, loc.meta_desc, loc.final_url)} :
        IF c.raised
        THEN /\ pc' = "failed"
             /\ err' = "ClassifierError"
             /\ loc' = loc
        ELSE /\ pc' = "mkcat"
             /\ loc' = [loc EXCEPT !.c = ApplyOverrides(c, sub.issue_body)]
             /\ err' = err
  /\ UNCHANGED <<fs, sub, out, runs, crashes, fsStart, fsAttempt, catStored, crashAt>>
  /\ UNCHANGED <<uvars, rvars, cvars>>

\* line 224, first write of ensure_category_page: the categories directory
MkcatStep ==
  /\ pc = "mkcat"
  /\ fs' = MkdirCategories(fs)
  /\ pc' = "page"
  /\ UNCHANGED <<sub, loc, err, out, runs, crashes, fsStart, fsAttempt, catStored, crashAt>>
  /\ UNCHANGED <<uvars, rvars, cvars>>

\* line 224, second write of ensure_category_page: the page, if absent
PageStep ==
  /\ pc = "page"
  /\ fs' = WritePage(fs, loc.c.category_name, loc.c.category_slug)
  /\ pc' = "load"
  /\ UNCHANGED <<sub, loc, err, out, runs, crashes, fsStart, fsAttempt, catStored, crashAt>>
  /\ UNCHANGED <<uvars, rvars, cvars>>

\* line 225: load_category_json creates the data directory and reads the
\* document
LoadStep ==
  /\ pc = "load"
  /\ fs' = MkdirData(fs)
  /\ loc' = [loc EXCEPT !.data_json =
               load_category_json(fs, loc.c.category_slug, loc.c.category_name)]
  /\ pc' = "upsert"
  /\ UNCHANGED <<sub, err, out, runs, crashes, fsStart, fsAttempt, catStored, crashAt>>
  /\ UNCHANGED <<uvars, rvars, cvars>>

\* lines 227-229: the upsert and the write of the JSON document
UpsertStep ==
  /\ pc = "upsert"
  /\ LET data_json == upsert_item(loc.data_json, MainGroup(loc), MainItem(loc))
     IN  /\ loc' = [loc EXCEPT !.data_json = data_json]
         /\ fs' = WriteJson(fs, loc.c.category_slug, data_json)
  /\ catStored' = IF Truthy(read_override(CATEGORY_RE, sub.issue_body))
                  THEN catStored \cup {<<RStripSlash(loc.final_url), loc.c.category_slug>>}
                  ELSE catStored
  /\ pc' = "index"
  /\ UNCHANGED <<sub, err, out, runs, crashes, fsStart, fsAttempt, crashAt>>
  /\ UNCHANGED <<uvars, rvars, cvars>>

\* line 232: ensure_category_link_on_index
IndexStep ==
  /\ pc = "index"
  /\ LET r == ensure_category_link_on_index(fs.index, loc.c.category_name,
                                            loc.c.category_slug)
     IN  IF r.raised
         THEN /\ pc' = "failed"
              /\ err' = "MissingMarkers"
              /\ fs' = fs
         ELSE /\ pc' = "report"
              /\ err' = err
              /\ fs' = [fs EXCEPT !.index = r.index]
  /\ UNCHANGED <<sub, loc, out, runs, crashes, fsStart, fsAttempt, catStored, crashAt>>
  /\ UNCHANGED <<uvars, rvars, cvars>>

\* lines 235-240: the outputs of the workflow step
ReportStep ==
  /\ pc = "report"
  /\ out' = <<loc.c.short_title, loc.c.category_name, loc.final_url>>
  /\ pc' = "done"
  /\ UNCHANGED <<fs, sub, loc, err, runs, crashes, fsStart, fsAttempt, catStored, crashAt>>
  /\ UNCHANGED <<uvars, rvars, cvars>>

\* the process dies between two filesystem writes or after the last one, and
\* the same submission is run again from the beginning
Crash ==
  /\ pc \in {"page", "load", "upsert", "index", "report"}
  /\ crashes < MaxCrashes
  /\ crashes' = crashes + 1
  /\ pc' = "start"
  /\ loc' = LocInit
  /\ fsAttempt' = fs
  /\ crashAt' = pc
  /\ UNCHANGED <<fs, sub, err, out, runs, fsStart, catStored>>
  /\ UNCHANGED <<uvars, rvars, cvars>>

Next ==
  \/ Start
  \/ FirstUrl
  \/ FetchMeta
  \/ ClassifyStep
  \/ MkcatStep
  \/ PageStep
  \/ LoadStep
  \/ UpsertStep
  \/ IndexStep
  \/ ReportStep

Init ==
  UInit /\ MInit(InitialIndexes) /\ RInit({IndexEmptyRegion.text}) /\ CInit({NoIndex})

Spec == Init /\ [][Next]_vars

(***************************************************************************)
(* The crash specification: the invocation specification with crashes of   *)
(* the process and re-runs of the crashed submission.                      *)
(***************************************************************************)
StartCrashRun == StartOn(CrashSubmissions)

NextCrash ==
  \/ StartCrashRun
  \/ FirstUrl
  \/ FetchMeta
  \/ ClassifyStep
  \/ MkcatStep
  \/ PageStep
  \/ LoadStep
  \/ UpsertStep
  \/ IndexStep
  \/ ReportStep
  \/ Crash

InitCrash ==
  UInit /\ MInit(CrashIndexes) /\ RInit({IndexEmptyRegion.text}) /\ CInit({NoIndex})

SpecCrash == InitCrash /\ [][NextCrash]_vars

(***************************************************************************)
(* The region specification: insert_between and                            *)
(* ensure_category_link_on_index applied again and again to a document     *)
(* with the category markers.                                              *)
(***************************************************************************)
\* one call insert_between(CAT_START, CAT_END, whole, c, dedupe_line=c); a
\* RuntimeError leaves the document as it was
InsertBetween ==
  /\ rops < MaxRegionOps
  /\ \E c \in Contents :
       \E r \in {insert_between(CAT_START, CAT_END, whole, c, c)} :
          /\ whole' = r.text
          /\ lastOp' = [kind |-> "insert", content |-> c, slug |-> <<>>,
                        raised |-> r.raised]
  /\ prevWhole' = whole
  /\ kinds' = kinds \cup {"insert"}
  /\ rops' = rops + 1
  /\ UNCHANGED <<whole0, slugs>>
  /\ UNCHANGED <<uvars, mvars, cvars>>

\* one call ensure_category_link_on_index(name, slug) with the document as
\* index file
EnsureLink ==
  /\ rops < MaxRegionOps
  /\ \E p \in LinkPairs :
       \E r \in {ensure_category_link_on_index(IndexFile(whole), p.name, p.slug)} :
          /\ whole' = r.index.text
          /\ lastOp' = [kind |-> "link", content |-> p.name, slug |-> p.slug,
                        raised |-> r.raised]
          /\ slugs' = slugs \cup {p.slug}
  /\ prevWhole' = whole
  /\ kinds' = kinds \cup {"link"}
  /\ rops' = rops + 1
  /\ UNCHANGED whole0
  /\ UNCHANGED <<uvars, mvars, cvars>>

NextRegion ==
  \/ InsertBetween
  \/ EnsureLink

InitRegion == UInit /\ MInit({NoIndex}) /\ RInit(RegionDocs) /\ CInit({NoIndex})

SpecRegion == InitRegion /\ [][NextRegion]_vars

(***************************************************************************)
(* The race specification: two invocations of the main script at the same  *)
(* time on one store, one step per access to a category document.          *)
(***************************************************************************)
\* lines 186-221: the local variables of an invocation before its first
\* write, as a record [failed, loc]
Prepare(s) ==
  LET url == IF Truthy(first_url(s.issue_title)) THEN first_url(s.issue_title)
             ELSE first_url(s.issue_body)
      m   == Resolve(url)
      c   == Classify(s.use_ai, s.reply, m.title, m.desc, m.final_url)
  IN  [failed |-> ~Truthy(url) \/ ~s.fetch_ok \/ c.raised,
       loc    |-> [LocInit EXCEPT !.url = url, !.title = m.title,
                                  !.meta_desc = m.desc, !.final_url = m.final_url,
                                  !.c = ApplyOverrides(c, s.issue_body)]]

\* the workflow starts invocation p, which resolves and classifies its URL
RaceStart(p) ==
  /\ racePc[p] = "idle"
  /\ \E s \in RaceSubmissions :
       \E r \in {Prepare(s)} :
          /\ raceSub' = [raceSub EXCEPT ![p] = s]
          /\ raceLoc' = [raceLoc EXCEPT ![p] = r.loc]
          /\ racePc' = [racePc EXCEPT ![p] = IF r.failed THEN "failed" ELSE "page"]
  /\ UNCHANGED <<raceFs, trace>>
  /\ UNCHANGED <<uvars, mvars, rvars>>

\* line 224: ensure_category_page
RacePage(p) ==
  /\ racePc[p] = "page"
  /\ raceFs' = ensure_category_page(raceFs, raceLoc[p].c.category_name,
                                     raceLoc[p].c.category_slug)
  /\ racePc' = [racePc EXCEPT ![p] = "load"]
  /\ UNCHANGED <<raceSub, raceLoc, trace>>
  /\ UNCHANGED <<uvars, mvars, rvars>>

\* line 225: load_category_json reads the document into the invocation
RaceLoad(p) ==
  /\ racePc[p] = "load"
  /\ raceFs' = MkdirData(raceFs)
  /\ raceLoc' = [raceLoc EXCEPT ![p].data_json =
                   load_category_json(raceFs, raceLoc[p].c.category_slug,
                                      raceLoc[p].c.category_name)]
  /\ racePc' = [racePc EXCEPT ![p] = "upsert"]
  /\ trace' = Append(trace, <<p, "load">>)
  /\ UNCHANGED raceSub
  /\ UNCHANGED <<uvars, mvars, rvars>>

\* mutation of RaceWrite: the document is read again when it is written
\* (the read-modify-write is one step)
RaceWriteLocked(p) ==
  /\ racePc[p] = "upsert"
  /\ \E data_json \in {upsert_item(load_category_json(raceFs, raceLoc[p].c.category_slug,
                                                        raceLoc[p].c.category_name),
                                     MainGroup(raceLoc[p]), MainItem(raceLoc[p]))} :
        /\ raceLoc' = [raceLoc EXCEPT ![p].data_json = data_json]
        /\ raceFs' = WriteJson(raceFs, raceLoc[p].c.category_slug, data_json)
  /\ racePc' = [racePc EXCEPT ![p] = "index"]
  /\ trace' = Append(trace, <<p, "write">>)
  /\ UNCHANGED raceSub
  /\ UNCHANGED <<uvars, mvars, rvars>>

\* lines 227-229: the upsert into the document the invocation loaded, and
\* the write of the JSON document
RaceWrite(p) ==
  /\ racePc[p] = "upsert"
  /\ \E data_json \in {upsert_item(raceLoc[p].data_json, MainGroup(raceLoc[p]),
                                     MainItem(raceLoc[p]))} :
        /\ raceLoc' = [raceLoc EXCEPT ![p].data_json = data_json]
        /\ raceFs' = WriteJson(raceFs, raceLoc[p].c.category_slug, data_json)
  /\ racePc' = [racePc EXCEPT ![p] = "index"]
  /\ trace' = Append(trace, <<p, "write">>)
  /\ UNCHANGED raceSub
  /\ UNCHANGED <<uvars, mvars, rvars>>

\* lines 232-240: ensure_category_link_on_index and the outputs
RaceIndex(p) ==
  /\ racePc[p] = "index"
  /\ \E r \in {ensure_category_link_on_index(raceFs.index, raceLoc[p].c.category_name,
                                                raceLoc[p].c.category_slug)} :
        /\ raceFs' = IF r.raised THEN raceFs ELSE [raceFs EXCEPT !.index = r.index]
        /\ racePc' = [racePc EXCEPT ![p] = IF r.raised THEN "failed" ELSE "done"]
  /\ UNCHANGED <<raceSub, raceLoc, trace>>
  /\ UNCHANGED <<uvars, mvars, rvars>>

NextRace ==
  \E p \in Procs :
     \/ RaceStart(p)
     \/ RacePage(p)
     \/ RaceLoad(p)
     \/ RaceWrite(p)
     \/ RaceIndex(p)

InitRace ==
  UInit /\ MInit({NoIndex}) /\ RInit({IndexEmptyRegion.text}) /\ CInit(RaceIndexes)

SpecRace == InitRace /\ [][NextRace]_vars

\* the store an uninterrupted run of a submission leaves behind
RunFs(fs0, s) ==
  LET url == IF Truthy(first_url(s.issue_title)) THEN first_url(s.issue_title)
             ELSE first_url(s.issue_body)
      m   == Resolve(url)
      c0  == Classify(s.use_ai, s.reply, m.title, m.desc, m.final_url)
      c   == ApplyOverrides(c0, s.issue_body)
      fs1 == ensure_category_page(fs0, c.category_name, c.category_slug)
      fs2 == MkdirData(fs1)
      d   == upsert_item(load_category_json(fs1, c.category_slug, c.category_name),
                         IF Truthy(c.group_name) THEN c.group_name ELSE GENERAL,
                         Item(c.short_title, m.final_url, c.description))
      fs3 == WriteJson(fs2, c.category_slug, d)
      r   == ensure_category_link_on_index(fs3.index, c.category_name, c.category_slug)
  IN  IF ~Truthy(url) \/ ~s.fetch_ok \/ c0.raised THEN fs0
      ELSE IF r.raised THEN fs3
      ELSE [fs3 EXCEPT !.index = r.index]

(***************************************************************************)
(* Properties of upsert_item (SpecUpsert).                                 *)
(***************************************************************************)
\* the group of a document that an upsert with this group name targets
\* (0 when the document has no such group)
TargetGroup(data, group_name) == FindGroup(data.groups, GroupKey(group_name))

\* the positions in a list of items of the items with the identity of it
SameIdentity(items, it) ==
  {i \in 1..Len(items) : RStripSlash(items[i].url) = RStripSlash(it.url)}

\* whether the last upsert found an item with the incoming URL's identity
LastUpsertMatched ==
  /\ nops > 0
  /\ TargetGroup(prevDoc, argGroup) # 0
  /\ SameIdentity(prevDoc.groups[TargetGroup(prevDoc, argGroup)].items, argItem) # {}

\* C1: upsert is idempotent: applying upsert(doc, group, item) a second time
\* to the document produced by the first application yields the same
\* document, field for field and in the same order.
C1_UpsertIdempotent ==
  nops > 0 => upsert_item(doc, argGroup, argItem) = doc

\* an upsert that merged into an existing item and changed the document
C1_Witness ==
  /\ LastUpsertMatched
  /\ doc # prevDoc
  /\ Len(doc.groups) >= 2

\* C2: partial merge: when the upsert finds an item with the same normalized
\* URL in the target group, each field of the stored item afterwards is the
\* incoming value if that is non-empty and the previously stored value
\* otherwise.
C2_PartialMerge ==
  LastUpsertMatched =>
    LET oldItems == prevDoc.groups[TargetGroup(prevDoc, argGroup)].items
        old      == oldItems[CHOOSE i \in SameIdentity(oldItems, argItem) : TRUE]
        newItems == doc.groups[TargetGroup(doc, argGroup)].items
    IN  /\ Cardinality(SameIdentity(newItems, old)) = 1
        /\ \A i \in SameIdentity(newItems, old) :
             \A k \in {"title", "url", "description"} :
                newItems[i][k] = IF Truthy(argItem[k]) THEN argItem[k] ELSE old[k]

\* a merge where an empty incoming title and an empty incoming URL kept the
\* stored values while the description was overwritten
C2_Witness ==
  /\ LastUpsertMatched
  /\ argItem = Item(<<>>, <<>>, <<"d">>)
  /\ \E g \in 1..Len(doc.groups) : \E i \in 1..Len(doc.groups[g].items) :
        doc.groups[g].items[i] = Item(<<"B">>, <<"/">>, <<"d">>)
  /\ doc # prevDoc

\* C3: sort invariant: the groups are in ascending order of lowercased name
\* and, in every group, the items are in ascending order of lowercased title.
C3_SortInvariant ==
  /\ Ascending([g \in 1..Len(doc.groups) |-> Lower(doc.groups[g].name)])
  /\ \A g \in 1..Len(doc.groups) :
        Ascending([i \in 1..Len(doc.groups[g].items) |->
                      Lower(doc.groups[g].items[i].title)])

\* two groups and a group of two items, both in an order that differs from
\* the code point order of the names and titles
C3_Witness ==
  /\ Len(doc.groups) = 2
  /\ doc.groups[1].name = <<"a","p","p","s">>
  /\ doc.groups[2].name = GENERAL
  /\ Len(doc.groups[2].items) = 2
  /\ doc.groups[2].items[1].title = <<"a">>
  /\ doc.groups[2].items[2].title = <<"B">>

\* C4: item identity: no group holds two items whose URLs are equal once
\* trailing slashes are stripped; an upsert of U + "/" after U leaves
\* exactly one item for U in the group.
C4_ItemIdentity ==
  /\ \A g \in 1..Len(doc.groups) :
        \A i, j \in 1..Len(doc.groups[g].items) :
           i # j => RStripSlash(doc.groups[g].items[i].url)
                      # RStripSlash(doc.groups[g].items[j].url)
  /\ nops > 0 =>
        Cardinality(SameIdentity(doc.groups[TargetGroup(doc, argGroup)].items,
                                 argItem)) = 1

\* "u/" upserted into a group that held "u": one item for it afterwards
C4_Witness ==
  /\ LastUpsertMatched
  /\ argItem.url = <<"u","/">>
  /\ \E i \in SameIdentity(prevDoc.groups[TargetGroup(prevDoc, argGroup)].items, argItem) :
        prevDoc.groups[TargetGroup(prevDoc, argGroup)].items[i].url = <<"u">>
  /\ Len(doc.groups[TargetGroup(doc, argGroup)].items) = 2

(***************************************************************************)
(* Properties of the invocation (Spec, SpecCrash).                          *)
(***************************************************************************)
\* the places <<slug, group, position>> of a store that hold an item with
\* the URL identity u
ItemsWith(store, u) ==
  {p \in UNION {UNION {{<<sl, g, i>> : i \in 1..Len(store.data[sl].groups[g].items)}
                       : g \in 1..Len(store.data[sl].groups)}
                : sl \in DOMAIN store.data} :
     RStripSlash(store.data[p[1]].groups[p[2]].items[p[3]].url) = u}

ItemAt(store, p) == store.data[p[1]].groups[p[2]].items[p[3]]

RECURSIVE SumOver(_, _)
SumOver(S, f) ==
  IF S = {} THEN 0 ELSE LET x == CHOOSE y \in S : TRUE IN f[x] + SumOver(S \ {x}, f)

\* number of groups in all the documents of a store
GroupCount(store) ==
  SumOver(DOMAIN store.data, [sl \in DOMAIN store.data |-> Len(store.data[sl].groups)])

\* the submission carries a Description: override and no other override,
\* and is classified by the keyword fallback
DescriptionOnly(s) ==
  /\ ~s.use_ai
  /\ Truthy(read_override(DESC_RE, s.issue_body))
  /\ ~Truthy(read_override(CATEGORY_RE, s.issue_body))
  /\ ~Truthy(read_override(GROUP_RE, s.issue_body))
  /\ ~Truthy(read_override(TITLE_RE, s.issue_body))

\* a Description-only resubmission of a URL that a submission with a
\* Category: override stored has completed
ResubmissionDone ==
  /\ pc = "done"
  /\ DescriptionOnly(sub)
  /\ \E p \in catStored : p[1] = RStripSlash(loc.final_url)

\* the original statement of C5: the resubmission updates the description
\* of the stored item, keeps its title, creates no second item for the URL
\* anywhere in the store and leaves the numbers of documents and groups
\* unchanged.
C5_ResubmissionUpdatesStored ==
  ResubmissionDone =>
    LET u == RStripSlash(loc.final_url)
    IN  /\ \A p \in ItemsWith(fsStart, u) :
             <<u, p[1]>> \in catStored =>
               \E q \in ItemsWith(fs, u) :
                  /\ q[1] = p[1]
                  /\ ItemAt(fs, q).description = loc.c.description
                  /\ ItemAt(fs, q).title = ItemAt(fsStart, p).title
        /\ Cardinality(ItemsWith(fs, u)) = Cardinality(ItemsWith(fsStart, u))
        /\ DOMAIN fs.data = DOMAIN fsStart.data
        /\ GroupCount(fs) = GroupCount(fsStart)

\* the places of the store that held the URL in the General group of the
\* document the keyword fallback selects
FallbackPlaces(store, l) ==
  {p \in ItemsWith(store, RStripSlash(l.final_url)) :
     /\ p[1] = slugify(fallback_category(l.title, l.meta_desc, l.final_url))
     /\ Lower(store.data[p[1]].groups[p[2]].name) = Lower(GENERAL)}

\* C5 (amended): the resubmission goes to the document of the category the
\* keyword fallback selects.  If the URL is held in the General group of
\* that document, the item's description becomes the override, its title
\* the resolver's title, and the numbers of items for the URL, of documents
\* and of groups are unchanged; otherwise every item stored before is left
\* as it was and a new item for the URL is created in that document.
C5_ResubmissionFollowsFallback ==
  ResubmissionDone =>
    LET u     == RStripSlash(loc.final_url)
        slug  == slugify(fallback_category(loc.title, loc.meta_desc, loc.final_url))
        there == FallbackPlaces(fsStart, loc)
    IN  IF there # {}
        THEN /\ \A p \in there :
                  \E q \in ItemsWith(fs, u) :
                     /\ q[1] = p[1]
                     /\ ItemAt(fs, q) =
                          Item(Take(loc.title, 60), loc.final_url, loc.c.description)
             /\ Cardinality(ItemsWith(fs, u)) = Cardinality(ItemsWith(fsStart, u))
             /\ DOMAIN fs.data = DOMAIN fsStart.data
             /\ GroupCount(fs) = GroupCount(fsStart)
        ELSE /\ \A sl \in DOMAIN fsStart.data \ {slug} : fs.data[sl] = fsStart.data[sl]
             /\ \A p \in ItemsWith(fsStart, u) :
                  \E q \in ItemsWith(fs, u) :
                     q[1] = p[1] /\ ItemAt(fs, q) = ItemAt(fsStart, p)
             /\ Cardinality(ItemsWith(fs, u)) = Cardinality(ItemsWith(fsStart, u)) + 1
             /\ \E q \in ItemsWith(fs, u) :
                  /\ q[1] = slug
                  /\ ItemAt(fs, q).description = loc.c.description

\* the resubmission found the URL in the fallback category's document and
\* changed the description of the stored item
C5_Witness ==
  /\ ResubmissionDone
  /\ FallbackPlaces(fsStart, loc) # {}
  /\ \A p \in FallbackPlaces(fsStart, loc) :
        ItemAt(fsStart, p).description # loc.c.description
  /\ fs.data # fsStart.data

\* scenario A has run to completion on an empty store whose index holds the
\* two markers in order
ScenarioADone ==
  /\ pc = "done"
  /\ sub = SubA
  /\ fsStart.data = << >> /\ fsStart.pages = << >>
  /\ fsStart.index.exists
  /\ ~MissingMarkers(fsStart.index.text, CAT_START, CAT_END)

ScenarioAItem == Item(<<"E","x","a","m","p","l","e"," ","T","o","o","l">>, URL_TOOL, <<"A"," ","d","o","m","a","i","n"," ","t","o","o","l">>)

\* the store of scenario A holds exactly the one item, in the General group
\* of the document of this slug, and the index links to the slug
ScenarioAStoredUnder(slug) ==
  /\ slug \in DOMAIN fs.data
  /\ fs.data[slug].groups = <<[name |-> GENERAL, items |-> <<ScenarioAItem>>]>>
  /\ Contains(fs.index.text, LinkHref(slug))

\* the original statement of C6: scenario A ends with the item in the
\* document of slug marketplaces and an index link to marketplaces.
C6_ScenarioAInMarketplaces ==
  ScenarioADone => ScenarioAStoredUnder(<<"m","a","r","k","e","t","p","l","a","c","e","s">>)

\* C6 (amended): a Category: label that follows other text on its line is
\* not an override, so scenario A ends with the item in the General group
\* of the document of slug general (the keyword fallback's category), an
\* index link to general, and no document or link for marketplaces.
C6_ScenarioAInGeneral ==
  ScenarioADone =>
    /\ ScenarioAStoredUnder(<<"g","e","n","e","r","a","l">>)
    /\ DOMAIN fs.data = {<<"g","e","n","e","r","a","l">>}
    /\ fs.data[<<"g","e","n","e","r","a","l">>].category = GENERAL
    /\ ~Contains(fs.index.text, LinkHref(<<"m","a","r","k","e","t","p","l","a","c","e","s">>))

C6_Witness ==
  /\ ScenarioADone
  /\ runs = 1
  /\ out = <<<<"E","x","a","m","p","l","e"," ","T","o","o","l">>, GENERAL, URL_TOOL>>

\* the invocation has passed the call of ensure_category_link_on_index
PastIndexStep == pc \in {"report", "done"} \/ (pc = "failed" /\ err = "MissingMarkers")

\* the statement of C7: when the index does not exist, or exists without
\* usable markers, ensure_category_link_on_index raises no error, leaves the
\* index unchanged, and the invocation continues.
C7_IndexLinkNoOpWithoutMarkers ==
  (/\ PastIndexStep
   /\ \/ ~fsStart.index.exists
      \/ MissingMarkers(fsStart.index.text, CAT_START, CAT_END))
  => /\ pc # "failed"
     /\ fs.index = fsStart.index

\* C8: fail-fast with no partial effect: nothing of the store is created or
\* modified before URL extraction, metadata resolution and classification
\* have all succeeded, and an invocation that fails in one of them ends with
\* the store as it was when it started.
C8_FailFastNoPartialEffect ==
  (\/ pc \in {"start", "fetch", "classify"}
   \/ (pc = "failed" /\ err \in {"InputError", "FetchError", "ClassifierError"}))
  => fs = fsAttempt

\* a failed fetch on a store that an earlier submission had filled
C8_Witness ==
  /\ pc = "failed"
  /\ err = "FetchError"
  /\ fs.data # << >>
  /\ fs = fsStart

\* the statement of C9: whatever the model-backed classifier returns, the
\* classification completes, with the keyword fallback's category when the
\* reply supplies none, and the invocation goes on to the store update.
C9_MalformedReplyNeverFatal ==
  (sub.use_ai /\ pc \notin {"idle", "start", "fetch", "classify"})
  => /\ err # "ClassifierError"
     /\ "category_name" \notin DOMAIN sub.reply.obj
          => loc.c.category_name
               = fallback_category(loc.title, loc.meta_desc, loc.final_url)

\* the documents, pages and index of two stores are the same
SameArtifacts(a, b) ==
  /\ a.data = b.data
  /\ a.pages = b.pages
  /\ a.index = b.index

\* C10: re-run convergence: when an invocation crashes between two of its
\* filesystem writes or after the last one and the same submission is run
\* again to completion, the category documents, the category pages and the
\* index are those an uninterrupted run of the submission produces.
C10_RerunConverges ==
  (pc = "done" /\ crashes > 0) => SameArtifacts(fs, RunFs(fsStart, sub))

\* a submission that crashed after its last write (the index already
\* rewritten) and was run again to completion on a store with a document
C10_Witness ==
  /\ pc = "done"
  /\ crashes > 0
  /\ crashAt = "report"
  /\ fs.index # fsStart.index
  /\ fsStart.data # << >>

(***************************************************************************)
(* Properties of the store under submissions processed one after the other *)
(* (Spec).                                                                 *)
(***************************************************************************)
\* the <<slug, group name>> of the groups of a store
StoredGroups(store) ==
  UNION {{<<sl, store.data[sl].groups[g].name>> : g \in 1..Len(store.data[sl].groups)}
         : sl \in DOMAIN store.data}

\* the <<slug, group name, URL identity>> of the items of a store
StoredPairs(store) ==
  UNION {UNION {{<<sl, store.data[sl].groups[g].name,
                   RStripSlash(store.data[sl].groups[g].items[i].url)>>
                 : i \in 1..Len(store.data[sl].groups[g].items)}
                : g \in 1..Len(store.data[sl].groups)}
         : sl \in DOMAIN store.data}

\* C11: no item is ever lost under serialized invocations: every step of
\* every invocation keeps each category document, each group of each
\* document and each (group, normalized URL) pair that the store holds.
C11_NoItemLost ==
  [][/\ DOMAIN fs.data \subseteq DOMAIN fs'.data
     /\ StoredGroups(fs) \subseteq StoredGroups(fs')
     /\ StoredPairs(fs) \subseteq StoredPairs(fs')]_vars

\* a second submission has been stored in the document and group of the
\* first, next to the item of the first
C11_Witness ==
  /\ pc = "done"
  /\ runs = 2
  /\ \E p \in StoredPairs(fsStart), q \in StoredPairs(fs) :
        /\ q \notin StoredPairs(fsStart)
        /\ q[1] = p[1]
        /\ q[2] = p[2]

(***************************************************************************)
(* Properties of the marked regions (SpecRegion).                          *)
(***************************************************************************)
\* the last operation was a call of insert_between that returned
LastInsertReturned == lastOp.kind = "insert" /\ ~lastOp.raised

\* the document after one more call of insert_between with the content of
\* the last call as new content and as dedupe key
InsertedAgain ==
  insert_between(CAT_START, CAT_END, whole, lastOp.content, lastOp.content).text

\* the statement of C12: insert_between is idempotent under the dedupe key:
\* for every document with the start marker followed by the end marker and
\* every non-empty single-line content used as new content and as dedupe
\* key, applying it twice gives the document that applying it once gives.
C12_InsertIdempotent ==
  (LastInsertReturned /\ lastOp.content # <<>>) => InsertedAgain = whole

\* C12: insert_between is idempotent under the dedupe key for single-line
\* content that has a character other than whitespace and does not contain
\* the end marker: applying it twice gives the document that applying it
\* once gives.
C12_InsertIdempotentVisible ==
  (/\ LastInsertReturned
   /\ Truthy(Strip(lastOp.content))
   /\ ~Contains(lastOp.content, CAT_END))
  => InsertedAgain = whole

\* a content with surrounding whitespace was inserted into a region whose
\* last line had no newline
C12_Witness ==
  /\ LastInsertReturned
  /\ lastOp.content = <<" "," ","k","e","e","p"," ">>
  /\ whole # prevWhole
  /\ Contains(whole, <<"y","\n"," "," ","k","e","e","p","\n">> \o CAT_END)

\* the text of a document up to and including its first start marker
BeforeOf(text) == Slice(text, 0, Find(text, CAT_START) - 1 + Len(CAT_START))

\* the text of a document from its first end marker to its end
AfterOf(text) == Drop(text, Find(text, CAT_END) - 1)

\* C13: region rewriting never touches content outside the markers: for
\* insert_between and for ensure_category_link_on_index, on every document
\* with both markers in order, the text up to and including the first start
\* marker is still the beginning of the document after the operation, up to
\* and including its first start marker, and the text from the first end
\* marker to the end is still its end, byte for byte.
C13_OutsideUntouched ==
  (lastOp.kind # "none" /\ ~MissingMarkers(prevWhole, CAT_START, CAT_END))
  => /\ ~lastOp.raised
     /\ BeforeOf(whole) = BeforeOf(prevWhole)
     /\ EndsWith(whole, AfterOf(prevWhole))
     /\ Len(whole) >= Len(BeforeOf(prevWhole)) + Len(AfterOf(prevWhole))

\* a document with text in front of and behind the region, rewritten by
\* insert_between and then by ensure_category_link_on_index
C13_Witness ==
  /\ lastOp.kind = "link"
  /\ kinds = {"insert", "link"}
  /\ whole # prevWhole
  /\ prevWhole # whole0
  /\ Len(BeforeOf(whole0)) > Len(CAT_START)
  /\ Len(AfterOf(whole0)) > Len(CAT_END)

\* the text of a document between its first start marker and its first end
\* marker
MiddleOf(text) ==
  Slice(text, Find(text, CAT_START) - 1 + Len(CAT_START), Find(text, CAT_END) - 1)

\* only ensure_category_link_on_index was applied, to a document whose
\* marked region was empty
OnlyLinksFromEmptyRegion ==
  /\ kinds = {"link"}
  /\ ~MissingMarkers(whole0, CAT_START, CAT_END)
  /\ Strip(MiddleOf(whole0)) = <<>>

\* C14: index link list invariant: starting from an index whose marked
\* region is empty, after any sequence of ensure_category_link_on_index
\* calls the region holds exactly one entry for each slug ever submitted,
\* also when a slug was submitted with different display names, and the
\* entries are in ascending order of their lowercased visible text.
C14_LinkListInvariant ==
  OnlyLinksFromEmptyRegion
  => LET lis == FindAllLi(MiddleOf(whole))
     IN  /\ Len(lis) = Cardinality(slugs)
         /\ \A sl \in slugs :
               Cardinality({i \in 1..Len(lis) : Contains(lis[i], LinkHref(sl))}) = 1
         /\ Ascending([i \in 1..Len(lis) |-> Lower(Strip(StripTags(lis[i])))])
         /\ MiddleOf(whole) = <<"\n">> \o JoinLines(lis) \o <<"\n">>

\* the slug of an entry was submitted again with another display name
C14_Witness ==
  /\ OnlyLinksFromEmptyRegion
  /\ rops = 2
  /\ slugs = {<<"g","e","n","e","r","a","l">>}
  /\ lastOp.content = <<"g","e","n","e","r","a","l">>
  /\ FindAllLi(MiddleOf(whole)) = <<LinkLi(GENERAL, <<"g","e","n","e","r","a","l">>)>>

(***************************************************************************)
(* Properties of the category pages and of the order of the writes (Spec). *)
(***************************************************************************)
\* C15: ensure_category_page is create-only: a category page that exists
\* keeps its content through every step of every later invocation,
\* whatever category name the invocation passes.
C15_PageCreateOnly ==
  [][\A sl \in DOMAIN fs.pages :
        sl \in DOMAIN fs'.pages /\ fs'.pages[sl] = fs.pages[sl]]_vars

\* ensure_category_page has run for a slug whose page an earlier invocation
\* had created under another category name
C15_Witness ==
  /\ pc = "load"
  /\ loc.c.category_slug \in DOMAIN fsAttempt.pages
  /\ fs.pages[loc.c.category_slug]
       # WritePage(EmptyStore(NoIndex), loc.c.category_name,
                   loc.c.category_slug).pages[loc.c.category_slug]

(***************************************************************************)
(* Properties of the groups of a document (SpecUpsert).                    *)
(***************************************************************************)
\* the groups of the document before the last upsert whose name differs from
\* the given group name at most in case and surrounding whitespace
GroupsNamedLike ==
  {i \in 1..Len(prevDoc.groups) :
     Truthy(argGroup) /\ Lower(prevDoc.groups[i].name) = Lower(Strip(argGroup))}

\* C16: group identity: a document never holds two groups whose names are
\* equal ignoring case, and an upsert whose group name differs from the name
\* of an existing group only in case or surrounding whitespace creates no
\* group and puts the item into that group.
C16_GroupIdentity ==
  /\ \A i, j \in 1..Len(doc.groups) :
        i # j => Lower(doc.groups[i].name) # Lower(doc.groups[j].name)
  /\ (nops > 0 /\ GroupsNamedLike # {})
     => /\ Len(doc.groups) = Len(prevDoc.groups)
        /\ \A i \in GroupsNamedLike :
              \E g \in 1..Len(doc.groups) :
                 /\ doc.groups[g].name = prevDoc.groups[i].name
                 /\ SameIdentity(doc.groups[g].items, argItem) # {}

\* an upsert into " general" added an item to the existing group "General"
C16_Witness ==
  /\ nops > 0
  /\ argGroup = <<" ","g","e","n","e","r","a","l">>
  /\ \E i \in GroupsNamedLike :
        /\ prevDoc.groups[i].name = GENERAL
        /\ SameIdentity(prevDoc.groups[i].items, argItem) = {}
  /\ Len(doc.groups) = 2

\* the item of the running invocation is in the group and document the
\* invocation stores it in
InvocationItemStored ==
  /\ loc.c.category_slug \in DOMAIN fs.data
  /\ \E d \in {fs.data[loc.c.category_slug]} :
        /\ TargetGroup(d, MainGroup(loc)) # 0
        /\ SameIdentity(d.groups[TargetGroup(d, MainGroup(loc))].items,
                        MainItem(loc)) # {}

\* the statement of C17: write ordering: the category JSON document is
\* written before any derived artifact (the category page or the index) is
\* created or modified, so that at no point of an invocation, where a crash
\* would stop it, an artifact is written without the JSON update.
C17_JsonBeforeArtifacts ==
  (fs.pages # fsAttempt.pages \/ fs.index # fsAttempt.index)
  => InvocationItemStored

\* C17: write ordering: the category page is created, when absent, before
\* the category JSON document is written, and the index is modified only
\* after it: at no point of an invocation is the index modified without the
\* JSON update, or the JSON document written without its page existing.
C17_PageThenJsonThenIndex ==
  /\ fs.index # fsAttempt.index => InvocationItemStored
  /\ fs.data # fsAttempt.data => loc.c.category_slug \in DOMAIN fs.pages

\* the point between the page write and the JSON write of an invocation
\* that created the page: the page exists without a JSON document
C17_Witness ==
  /\ pc = "load"
  /\ loc.c.category_slug \notin DOMAIN fsAttempt.pages
  /\ loc.c.category_slug \in DOMAIN fs.pages
  /\ loc.c.category_slug \notin DOMAIN fs.data

\* the statement of C18: group name defaulting: an upsert whose group name
\* is absent, empty or whitespace only puts the item into the group named
\* "General", and no document ever holds a group with an empty name.
C18_GroupNameDefaulting ==
  /\ \A g \in 1..Len(doc.groups) : doc.groups[g].name # <<>>
  /\ (nops > 0 /\ Strip(argGroup) = <<>>)
     => \E g \in 1..Len(doc.groups) :
           /\ doc.groups[g].name = GENERAL
           /\ SameIdentity(doc.groups[g].items, argItem) # {}

\* the items of a list other than those with the identity of it
OtherItems(items, it) ==
  {items[i] : i \in (1..Len(items)) \ SameIdentity(items, it)}

\* C20: upsert changes at most one item: the category field of the document
\* is unchanged, every group other than the target group holds the same
\* items in the same order, and the target group holds every item it held
\* whose normalized URL is not the incoming one, with the same title, url
\* and description, plus at most one new item.
C20_UpsertFrame ==
  nops > 0
  => /\ doc.category = prevDoc.category
     /\ \A g \in 1..Len(prevDoc.groups) :
           \E h \in 1..Len(doc.groups) :
              /\ doc.groups[h].name = prevDoc.groups[g].name
              /\ IF g = TargetGroup(prevDoc, argGroup)
                 THEN /\ OtherItems(prevDoc.groups[g].items, argItem)
                           = OtherItems(doc.groups[h].items, argItem)
                      /\ Len(doc.groups[h].items)
                           = Len(prevDoc.groups[g].items)
                             + (IF LastUpsertMatched THEN 0 ELSE 1)
                 ELSE doc.groups[h].items = prevDoc.groups[g].items
     /\ Len(doc.groups)
          = Len(prevDoc.groups) + (IF TargetGroup(prevDoc, argGroup) = 0 THEN 1 ELSE 0)

\* an upsert changed an item of a group that held a second item
C20_Witness ==
  /\ LastUpsertMatched
  /\ doc # prevDoc
  /\ OtherItems(prevDoc.groups[TargetGroup(prevDoc, argGroup)].items, argItem) # {}

(***************************************************************************)
(* Properties of invocations that run at the same time (SpecRace).         *)
(***************************************************************************)
\* the URL identity of the item invocation p stores
RaceIdentity(p) == RStripSlash(raceLoc[p].final_url)

\* both invocations have completed, they stored different URLs in the same
\* category, and both loaded the category document before either wrote it
BothLoadedBeforeWrite ==
  /\ \A p \in Procs : racePc[p] = "done"
  /\ raceLoc[1].c.category_slug = raceLoc[2].c.category_slug
  /\ RaceIdentity(1) # RaceIdentity(2)
  /\ Len(trace) = 4
  /\ trace[1][2] = "load"
  /\ trace[2][2] = "load"

\* C19: unlocked read-modify-write race: when two invocations that submit
\* different URLs to the same category both load the category document
\* before either writes it back, both complete, and the final document is
\* the one of the invocation that wrote last: it holds that invocation's
\* item and not the item of the other invocation.
C19_LastWriterWins ==
  BothLoadedBeforeWrite
  => \E d \in {raceFs.data[raceLoc[1].c.category_slug]} :
        /\ d = raceLoc[trace[4][1]].data_json
        /\ \A g \in 1..Len(d.groups) : \A i \in 1..Len(d.groups[g].items) :
              RStripSlash(d.groups[g].items[i].url) = RaceIdentity(trace[4][1])
        /\ \E g \in 1..Len(d.groups) : d.groups[g].items # <<>>

\* the invocation that loaded first wrote last, and the item of the other
\* invocation is gone
C19_Witness ==
  /\ BothLoadedBeforeWrite
  /\ trace[1][1] = trace[4][1]
  /\ raceFs.index # NoIndex

====
